---- MODULE Spec2Model ----
(***************************************************************************)
(* A model of src/freekassa-client/client.py: the FreeKassaClient object,  *)
(* its four operations and the HTTP transport they call.                   *)
(*                                                                         *)
(* A Python str is a sequence of one-character strings.  Calls are made by *)
(* caller threads; every caller owns a frame holding the call's arguments, *)
(* its locals and its position in the method body.                         *)
(***************************************************************************)
EXTENDS Integers, Sequences, FiniteSets, TLC

VARIABLES
    ctor,     \* the arguments __init__ was called with (never written again)
    client,   \* the fields of the FreeKassaClient object (self._*)
    call      \* call[c]: the frame of caller c's current call

vars == <<ctor, client, call>>

(***************************************************************************)
(* Bounds of the model.                                                    *)
(***************************************************************************)
NumCallers == 2

Callers == 1..NumCallers

(***************************************************************************)
(* Python values.                                                          *)
(***************************************************************************)
\* None, as a value that is no str (no str holds this element).
None == <<"<None>">>

\* A lone surrogate code point: a character str.encode('utf-8') rejects.
Surrogate == "<U+D800>"

\* bool(x) is False for None and for the empty str.
Falsy(x) == x = None \/ x = <<>>

\* ord(c) of the characters the model's strings are made of.
Ord(c) ==
    CASE c = " " -> 32  [] c = "%" -> 37  [] c = "&" -> 38  [] c = "+" -> 43
      [] c = "-" -> 45  [] c = "." -> 46  [] c = "/" -> 47
      [] c = "0" -> 48  [] c = "1" -> 49  [] c = "2" -> 50  [] c = "3" -> 51
      [] c = "4" -> 52  [] c = "5" -> 53  [] c = "6" -> 54  [] c = "7" -> 55
      [] c = "8" -> 56  [] c = "9" -> 57  [] c = ":" -> 58  [] c = "=" -> 61
      [] c = "?" -> 63  [] c = "@" -> 64
      [] c = "A" -> 65  [] c = "B" -> 66  [] c = "C" -> 67  [] c = "D" -> 68
      [] c = "E" -> 69  [] c = "F" -> 70  [] c = "G" -> 71  [] c = "I" -> 73
      [] c = "P" -> 80  [] c = "R" -> 82  [] c = "U" -> 85
      [] c = "a" -> 97  [] c = "b" -> 98  [] c = "c" -> 99  [] c = "d" -> 100
      [] c = "e" -> 101 [] c = "f" -> 102 [] c = "g" -> 103 [] c = "h" -> 104
      [] c = "i" -> 105 [] c = "k" -> 107 [] c = "l" -> 108 [] c = "m" -> 109
      [] c = "n" -> 110 [] c = "o" -> 111 [] c = "p" -> 112 [] c = "r" -> 114
      [] c = "s" -> 115 [] c = "t" -> 116 [] c = "u" -> 117 [] c = "y" -> 121
      [] c = "|" -> 124
      [] c = Surrogate -> 55296

\* str.encode('utf-8') succeeds: no lone surrogate in the string.
Encodable(s) == \A k \in 1..Len(s) : s[k] # Surrogate

HexDigits == <<"0", "1", "2", "3", "4", "5", "6", "7", "8", "9",
               "a", "b", "c", "d", "e", "f">>

\* The two lowercase hexadecimal digits of one byte.
HexByte(n) == <<HexDigits[(n \div 16) + 1], HexDigits[(n % 16) + 1]>>

RECURSIVE HexOf(_)
HexOf(s) == IF s = <<>> THEN <<>> ELSE HexByte(Ord(Head(s))) \o HexOf(Tail(s))

\* c.lower() for one character.
LowerChar(c) ==
    CASE c = "A" -> "a" [] c = "B" -> "b" [] c = "C" -> "c" [] c = "D" -> "d"
      [] c = "E" -> "e" [] c = "F" -> "f" [] c = "G" -> "g" [] c = "I" -> "i"
      [] c = "P" -> "p" [] c = "R" -> "r" [] c = "U" -> "u"
      [] OTHER -> c

\* c.upper() for one hexadecimal digit ('%02X' formatting).
UpperChar(c) ==
    CASE c = "a" -> "A" [] c = "b" -> "B" [] c = "c" -> "C" [] c = "d" -> "D"
      [] c = "e" -> "E" [] c = "f" -> "F"
      [] OTHER -> c

\* str.lower()
Lower(s) == [k \in 1..Len(s) |-> LowerChar(s[k])]

Upper(s) == [k \in 1..Len(s) |-> UpperChar(s[k])]

RECURSIVE NatToStr(_)
NatToStr(n) ==
    IF n < 10 THEN <<HexDigits[n + 1]>>
    ELSE NatToStr(n \div 10) \o <<HexDigits[(n % 10) + 1]>>

\* str(n) of an int.
IntToStr(n) == IF n < 0 THEN <<"-">> \o NatToStr(0 - n) ELSE NatToStr(n)

RECURSIVE Join(_, _)
\* sep.join(parts)
Join(sep, parts) ==
    IF parts = <<>> THEN <<>>
    ELSE IF Len(parts) = 1 THEN parts[1]
    ELSE parts[1] \o sep \o Join(sep, Tail(parts))

(***************************************************************************)
(* Digests.  MD5 is modelled as collision-free: the digest of a message is *)
(* the lowercase hexadecimal text of the message's bytes, so distinct      *)
(* messages have distinct digests and hexdigest() is lowercase hex.        *)
(* HMAC-SHA256 is modelled as the pair of the algorithm's inputs.          *)
(***************************************************************************)
md5hex(data) == HexOf(data)

hmac_sha256_hex(message, key) == <<<<"hmac-sha256">>, key, message>>

(***************************************************************************)
(* Construction.                                                           *)
(***************************************************************************)
DefaultApiUrl == <<"h", "t", "t", "p", "s", ":", "/", "/", "a", "p", "i", ".",
                   "f", "k", ".", "l", "i", "f", "e", "/", "v", "1", "/">>

DefaultUiUrl == <<"h", "t", "t", "p", "s", ":", "/", "/", "p", "a", "y", ".",
                  "f", "k", ".", "m", "o", "n", "e", "y", "/">>

\* FreeKassaClient.__init__: the fields of the new object.
Construct(a) ==
    [merchant_id |-> a.merchant_id,
     secret1     |-> a.secret_word_1,
     secret2     |-> a.secret_word_2,
     api_key     |-> a.api_key,
     success_url |-> a.success_url,
     fail_url    |-> a.fail_url,
     notify_url  |-> a.notify_url,
     api_url     |-> IF Falsy(a.api_url) THEN DefaultApiUrl ELSE a.api_url,
     ui_url      |-> IF Falsy(a.ui_url) THEN DefaultUiUrl ELSE a.ui_url,
     nonce       |-> a.nonce]

(***************************************************************************)
(* Frames.                                                                 *)
(***************************************************************************)
NoResult == [kind |-> "none"]

Bool(b) == [kind |-> "bool", b |-> b]

Str(s) == [kind |-> "str", s |-> s]

\* How a method body ends: with a returned value or with a raised error.
Returns(v) == [error |-> "", result |-> v]

Raises(e) == [error |-> e, result |-> NoResult]

IdleFrame ==
    [op |-> "none", pc |-> "idle", args |-> <<>>,
     payload |-> <<>>, keys |-> <<>>, message |-> <<>>, request |-> <<>>,
     posts |-> 0,
     response |-> <<>>, parses |-> 0, result |-> NoResult, error |-> ""]

Ended(f) == f.pc \in {"returned", "raised"}

\* The frame of a call that ended with outcome o.
End(f, o) ==
    [f EXCEPT !.pc = IF o.error = "" THEN "returned" ELSE "raised",
              !.result = o.result, !.error = o.error]

\* Caller c calls method op with arguments args.
Call(c, op, args) ==
    /\ call[c].pc = "idle"
    /\ call' = [call EXCEPT ![c] = [IdleFrame EXCEPT !.op = op, !.pc = op,
                                                     !.args = args]]
    /\ UNCHANGED <<ctor, client>>

\* The caller takes the outcome of its call and is free to call again.
Return(c) ==
    /\ Ended(call[c])
    /\ call' = [call EXCEPT ![c] = IdleFrame]
    /\ UNCHANGED <<ctor, client>>

(***************************************************************************)
(* verify_notify                                                           *)
(***************************************************************************)
\* The message without the order id.
NotifyMessageWithoutOrder(self, amount, order_id) ==
    IntToStr(self.merchant_id) \o <<":">> \o amount \o <<":">> \o self.secret2

\* f'{self._merchant_id}:{amount}:{self._secret2}:{order_id}'
NotifyMessage(self, amount, order_id) ==
    IntToStr(self.merchant_id) \o <<":">> \o amount \o <<":">>
        \o self.secret2 \o <<":">> \o order_id

verify_notify(self, amount, order_id, sign) ==
    LET data == NotifyMessage(self, amount, order_id) IN
    IF ~Encodable(data) THEN Raises("UnicodeEncodeError")
    ELSE LET expected == md5hex(data) IN
         Returns(Bool(Lower(expected) = Lower(sign)))

VerifyNotify(c) ==
    /\ call[c].pc = "verify_notify"
    /\ LET a == call[c].args IN
       call' = [call EXCEPT ![c] =
                    End(@, verify_notify(client, a.amount, a.order_id, a.sign))]
    /\ UNCHANGED <<ctor, client>>

(***************************************************************************)
(* Inputs of the notification checks.                                      *)
(***************************************************************************)
Substitutions(s, chars) ==
    {[s EXCEPT ![k] = ch] : k \in 1..Len(s), ch \in chars} \ {s}

Deletions(s) ==
    {SubSeq(s, 1, k - 1) \o SubSeq(s, k + 1, Len(s)) : k \in 1..Len(s)}

Insertions(s, chars) ==
    {SubSeq(s, 1, k) \o <<ch>> \o SubSeq(s, k + 1, Len(s)) :
        k \in 0..Len(s), ch \in chars}

\* Every string one character away from s.
Mutations(s, chars) ==
    Substitutions(s, chars) \cup Deletions(s) \cup Insertions(s, chars)

\* t differs from s in one position, and there only in the case of a letter.
CaseOnly(s, t) ==
    /\ Len(s) = Len(t)
    /\ s # t
    /\ Lower(s) = Lower(t)
    /\ Cardinality({k \in 1..Len(s) : s[k] # t[k]}) = 1

MutationChars == {"0", "1", "a", "A", "g", ":", Surrogate}

NotifyAmounts == {<<"1">>, <<"1", ".", "5">>, <<Surrogate>>}

NotifyOrders == {<<"o">>, <<"o", "1">>}

\* The signatures tried for (amount, order_id): the gateway's, in lower and
\* in upper case, the one made with secret key 1, and two that are no digest.
NotifySigns(self, amount, order_id) ==
    LET data == NotifyMessage(self, amount, order_id) IN
    {<<>>, <<"0", "g">>} \cup
    (IF Encodable(data)
       THEN {md5hex(data), Upper(md5hex(data)),
             md5hex(NotifyMessage([self EXCEPT !.secret2 = self.secret1],
                                  amount, order_id))}
       ELSE {})

NotifyInputs(self) ==
    UNION {{[amount |-> a, order_id |-> o, sign |-> g] :
                g \in NotifySigns(self, a, o)} :
           a \in NotifyAmounts, o \in NotifyOrders}

\* The triples one character away from t in exactly one of its fields.
MutatedTriples(t) ==
    {[t EXCEPT !.amount = m] : m \in Mutations(t.amount, MutationChars)}
    \cup {[t EXCEPT !.order_id = m] : m \in Mutations(t.order_id, MutationChars)}
    \cup {[t EXCEPT !.sign = m] : m \in Mutations(t.sign, MutationChars)}

(***************************************************************************)
(* Initial states: a client constructed from one of the argument lists,    *)
(* no call in progress.                                                    *)
(***************************************************************************)
ApiKey == <<"k", "e", "y">>

CustomApiUrl == <<"h", "t", "t", "p", ":", "/", "/", "a", "/">>

CustomUiUrl == <<"h", "t", "t", "p", ":", "/", "/", "u", "/">>

CtorArgs ==
    {[merchant_id |-> 7, secret_word_1 |-> <<"a">>, secret_word_2 |-> <<"b">>,
      api_key |-> k, success_url |-> None, fail_url |-> None,
      notify_url |-> None, api_url |-> u[1], ui_url |-> u[2], nonce |-> n] :
        k \in {None, <<>>, ApiKey},
        u \in {<<None, <<>> >>, <<CustomApiUrl, CustomUiUrl>>},
        n \in {1, 12}}

InitWith(args) ==
    /\ ctor \in args
    /\ client = Construct(ctor)
    /\ call = [c \in Callers |-> IdleFrame]

(***************************************************************************)
(* NotifySpec: verify_notify applied to a triple by caller 1 and then to a *)
(* triple one character away from it by caller 2.                          *)
(***************************************************************************)
NotifyInit == InitWith({a \in CtorArgs : a.api_key = None /\ a.nonce = 1
                                         /\ a.api_url = None})

NotifyCallFirst ==
    /\ call[1].pc = "idle"
    /\ \E t \in NotifyInputs(client) : Call(1, "verify_notify", t)

NotifyCallSecond ==
    /\ Ended(call[1])
    /\ call[1].op = "verify_notify"
    /\ call[2].pc = "idle"
    /\ \E t \in MutatedTriples(call[1].args) : Call(2, "verify_notify", t)

NotifyNext ==
    \/ NotifyCallFirst
    \/ NotifyCallSecond
    \/ \E c \in Callers : VerifyNotify(c)

NotifySpec == NotifyInit /\ [][NotifyNext]_vars

\* What the gateway signs a notification with: MD5 over the merchant id, the
\* amount as received, secret key 2 and the order id.
GatewaySign(amount, order_id) ==
    md5hex(IntToStr(ctor.merchant_id) \o <<":">> \o amount \o <<":">>
               \o ctor.secret_word_2 \o <<":">> \o order_id)

SameIgnoringCase(s, t) ==
    /\ Len(s) = Len(t)
    /\ \A k \in 1..Len(s) : LowerChar(s[k]) = LowerChar(t[k])

\* C4 (as claimed): every verify_notify call ends by returning a bool, never
\* with an error, and the bool is true exactly when the given signature is,
\* up to letter case, the MD5 digest over merchant id, raw amount, secret
\* key 2 and order id.
C4_VerifyReturnsIffSignMatches ==
    \A c \in Callers :
        (call[c].op = "verify_notify" /\ Ended(call[c])) =>
            /\ call[c].pc = "returned"
            /\ call[c].result =
                 Bool(SameIgnoringCase(call[c].args.sign,
                        GatewaySign(call[c].args.amount, call[c].args.order_id)))

\* verify_notify on strings that UTF-8 can encode behaves as C4 claims.
VerifyOnEncodableInputs ==
    \A c \in Callers :
        (/\ call[c].op = "verify_notify" /\ Ended(call[c])
         /\ Encodable(call[c].args.amount \o call[c].args.order_id)) =>
            /\ call[c].pc = "returned"
            /\ call[c].result =
                 Bool(SameIgnoringCase(call[c].args.sign,
                        GatewaySign(call[c].args.amount, call[c].args.order_id)))

\* C5 (as claimed): when verify_notify returned true for a triple, it returns
\* false for every triple one character away from it.
C5_MutationReturnsFalse ==
    (/\ call[1].op = "verify_notify" /\ call[1].pc = "returned"
     /\ call[1].result = Bool(TRUE)
     /\ call[2].op = "verify_notify" /\ Ended(call[2])) =>
        /\ call[2].pc = "returned"
        /\ call[2].result = Bool(FALSE)

\* C5 (amended): when verify_notify returned true for a triple, then for a
\* triple one character away from it, other than one that differs only in
\* the letter case of one character of sign, the call does not return true:
\* it returns false, or it raises when the changed amount or order id cannot
\* be encoded as UTF-8.
C5_MutationNeverVerifies ==
    (/\ call[1].op = "verify_notify" /\ call[1].pc = "returned"
     /\ call[1].result = Bool(TRUE)
     /\ call[2].op = "verify_notify" /\ Ended(call[2])
     /\ ~CaseOnly(call[1].args.sign, call[2].args.sign)) =>
        IF Encodable(call[2].args.amount \o call[2].args.order_id)
          THEN call[2].pc = "returned" /\ call[2].result = Bool(FALSE)
          ELSE call[2].pc = "raised" /\ call[2].error = "UnicodeEncodeError"

\* A verified triple and a mutation of its amount, order id or sign (not a
\* change of case) have both been checked.
C5_Witness ==
    /\ call[1].op = "verify_notify" /\ call[1].pc = "returned"
    /\ call[1].result = Bool(TRUE)
    /\ call[2].op = "verify_notify" /\ call[2].pc = "returned"
    /\ call[2].result = Bool(FALSE)
    /\ call[2].args.order_id # call[1].args.order_id

(***************************************************************************)
(* ui_create_order                                                         *)
(***************************************************************************)
\* A Decimal amount is its number of thousandths (exponent -3, not negative).
TwoDigits(n) == <<HexDigits[(n \div 10) + 1], HexDigits[(n % 10) + 1]>>

\* The amount's hundredths after rounding half-even (the decimal context's
\* default rounding, which Decimal.__format__ applies).
RoundHundredths(amount) ==
    LET q == amount \div 10
        r == amount % 10
    IN IF r > 5 \/ (r = 5 /\ q % 2 = 1) THEN q + 1 ELSE q

\* f'{amount:.2f}'
Format2f(amount) ==
    LET h == RoundHundredths(amount) IN
    NatToStr(h \div 100) \o <<".">> \o TwoDigits(h % 100)

\* str(amount) of the Decimal.
DecimalToStr(amount) ==
    NatToStr(amount \div 1000) \o <<".">>
        \o <<HexDigits[((amount \div 100) % 10) + 1]>> \o TwoDigits(amount % 100)

\* The characters urllib.parse.quote_plus leaves as they are.
UrlSafe(c) ==
    \/ c \in {"_", ".", "-", "~"}
    \/ Ord(c) \in 48..57 \/ Ord(c) \in 65..90 \/ Ord(c) \in 97..122

QuoteChar(c) ==
    IF c = " " THEN <<"+">>
    ELSE IF UrlSafe(c) THEN <<c>>
    ELSE <<"%">> \o Upper(HexByte(Ord(c)))

RECURSIVE quote_plus(_)
quote_plus(s) ==
    IF s = <<>> THEN <<>> ELSE QuoteChar(Head(s)) \o quote_plus(Tail(s))

\* urlencode(payload): payload is the dict's items in insertion order, the
\* values already passed through str().
urlencode(payload) ==
    Join(<<"&">>, [k \in 1..Len(payload) |->
                      quote_plus(payload[k][1]) \o <<"=">> \o quote_plus(payload[k][2])])

KeyM == <<"m">>
KeyOa == <<"o", "a">>
KeyCurrency == <<"c", "u", "r", "r", "e", "n", "c", "y">>
KeyO == <<"o">>
KeyS == <<"s">>
KeyI == <<"i">>

\* f'{self._merchant_id}:{amount_str}:{self._secret1}:{currency}:{payment_id}'
UiSignStr(self, amount_str, currency, payment_id) ==
    IntToStr(self.merchant_id) \o <<":">> \o amount_str \o <<":">>
        \o self.secret1 \o <<":">> \o currency \o <<":">> \o payment_id

\* The string signed over str(amount) instead of the formatted amount.
ui_sign_str_unformatted(self, amount, currency, payment_id) ==
    UiSignStr(self, DecimalToStr(amount), currency, payment_id)

\* The string whose digest becomes 's', with amount_str the formatted amount.
ui_sign_str(self, amount, currency, payment_id) ==
    UiSignStr(self, Format2f(amount), currency, payment_id)

ui_create_order(self, amount, currency, payment_id, payment_method_id) ==
    LET amount_str == Format2f(amount)
        sign_str == ui_sign_str(self, amount, currency, payment_id)
    IN IF ~Encodable(sign_str) THEN Raises("UnicodeEncodeError")
       ELSE LET signature == md5hex(sign_str)
                payload == << <<KeyM, IntToStr(self.merchant_id)>>,
                              <<KeyOa, amount_str>>,
                              <<KeyCurrency, currency>>,
                              <<KeyO, payment_id>>,
                              <<KeyS, signature>>,
                              <<KeyI, IntToStr(payment_method_id)>> >>
            IN Returns(Str(self.ui_url \o <<"?">> \o urlencode(payload)))

UiCreateOrder(c) ==
    /\ call[c].pc = "ui_create_order"
    /\ LET a == call[c].args IN
       call' = [call EXCEPT ![c] =
                    End(@, ui_create_order(client, a.amount, a.currency,
                                           a.payment_id, a.payment_method_id))]
    /\ UNCHANGED <<ctor, client>>

(***************************************************************************)
(* UiSpec: ui_create_order applied by the callers to drawn inputs.         *)
(***************************************************************************)
UiAmounts == {5, 15, 1005, 12999}

UiCurrencies == {<<"R", "U", "B">>, <<"U", " ">>}

UiPaymentIds == {<<"o", "1">>, <<"a", "&", "b", "=">>, <<":", "|", "%", "+">>,
                 <<"o", Surrogate>>}

UiInputs ==
    [amount : UiAmounts, currency : UiCurrencies, payment_id : UiPaymentIds,
     payment_method_id : {4}]

UiInit == InitWith({a \in CtorArgs : a.api_key = None /\ a.nonce = 1})

UiNext ==
    \/ \E c \in {1, 2}, a \in UiInputs : Call(c, "ui_create_order", a)
    \/ \E c \in Callers : UiCreateOrder(c)

UiSpec == UiInit /\ [][UiNext]_vars

\* Reading a URL back: the query after the last '?', split at '&' and at
\* the first '=', each side percent-decoded (urllib.parse.parse_qsl).
Alphabet ==
    {" ", "%", "&", "+", "-", ".", "/", "0", "1", "2", "3", "4", "5", "6", "7",
     "8", "9", ":", "=", "?", "@", "A", "B", "C", "D", "E", "F", "G", "I", "P",
     "R", "U", "a", "b", "c", "d", "e", "f", "g", "h", "i", "k", "l", "m", "n",
     "o", "p", "r", "s", "t", "u", "y", "|"}

Positions(s, ch) == {k \in 1..Len(s) : s[k] = ch}

Max(S) == CHOOSE x \in S : \A y \in S : y <= x

Min(S) == CHOOSE x \in S : \A y \in S : x <= y

AfterLast(s, ch) ==
    IF Positions(s, ch) = {} THEN s
    ELSE SubSeq(s, Max(Positions(s, ch)) + 1, Len(s))

RECURSIVE Split(_, _)
Split(s, ch) ==
    IF Positions(s, ch) = {} THEN <<s>>
    ELSE LET k == Min(Positions(s, ch)) IN
         <<SubSeq(s, 1, k - 1)>> \o Split(SubSeq(s, k + 1, Len(s)), ch)

RECURSIVE Unquote(_)
Unquote(s) ==
    IF s = <<>> THEN <<>>
    ELSE IF s[1] = "+" THEN <<" ">> \o Unquote(Tail(s))
    ELSE IF s[1] = "%" /\ Len(s) >= 3
      THEN <<CHOOSE c \in Alphabet : Upper(HexByte(Ord(c))) = SubSeq(s, 2, 3)>>
               \o Unquote(SubSeq(s, 4, Len(s)))
    ELSE <<s[1]>> \o Unquote(Tail(s))

ParsePair(p) ==
    LET k == Min(Positions(p, "=")) IN
    <<Unquote(SubSeq(p, 1, k - 1)), Unquote(SubSeq(p, k + 1, Len(p)))>>

ParseQuery(url) ==
    LET parts == Split(AfterLast(url, "?"), "&") IN
    [k \in 1..Len(parts) |-> ParsePair(parts[k])]

IsDigit(c) == c \in {"0", "1", "2", "3", "4", "5", "6", "7", "8", "9"}

\* One or more digits, a point, two digits.
IsTwoDecimal(s) ==
    /\ Len(s) >= 4
    /\ s[Len(s) - 2] = "."
    /\ \A k \in 1..Len(s) : k # Len(s) - 2 => IsDigit(s[k])

RECURSIVE DigitsValue(_)
DigitsValue(s) ==
    IF s = <<>> THEN 0
    ELSE 10 * DigitsValue(SubSeq(s, 1, Len(s) - 1)) + (Ord(s[Len(s)]) - 48)

\* The hundredths a two-decimal string stands for.
HundredthsOf(s) ==
    DigitsValue(SubSeq(s, 1, Len(s) - 3) \o SubSeq(s, Len(s) - 1, Len(s)))

WellFormedUi(a) == Encodable(a.currency \o a.payment_id)

UiUrlSound(c) ==
    LET a == call[c].args
        q == ParseQuery(call[c].result.s)
    IN /\ call[c].result.kind = "str"
       /\ Len(q) = 6
       /\ <<q[1][1], q[2][1], q[3][1], q[4][1], q[5][1], q[6][1]>>
             = <<KeyM, KeyOa, KeyCurrency, KeyO, KeyS, KeyI>>
       /\ q[1][2] = IntToStr(ctor.merchant_id)
       /\ IsTwoDecimal(q[2][2])
       /\ 10 * HundredthsOf(q[2][2]) - a.amount \in -5..5
       /\ q[3][2] = a.currency
       /\ q[4][2] = a.payment_id
       /\ q[6][2] = IntToStr(a.payment_method_id)
       /\ q[5][2] = md5hex(q[1][2] \o <<":">> \o q[2][2] \o <<":">>
                            \o ctor.secret_word_1 \o <<":">> \o q[3][2]
                            \o <<":">> \o q[4][2])

\* C7: a ui_create_order call on well-formed inputs ends by returning, having
\* issued no HTTP request; the returned URL carries the parameters m, oa,
\* currency, o, s, i in this order; oa is the amount as a two-decimal string;
\* s is the MD5 digest of "m:oa:secretKey1:currency:o" over the values the
\* same URL carries; and two calls with the same inputs return the same URL.
C7_UiUrlSignedAndDeterministic ==
    \A c \in Callers :
        (/\ call[c].op = "ui_create_order" /\ Ended(call[c])
         /\ WellFormedUi(call[c].args)) =>
            /\ call[c].pc = "returned"
            /\ call[c].posts = 0
            /\ call[c].request = <<>>
            /\ UiUrlSound(c)
            /\ \A d \in Callers :
                 (/\ call[d].op = "ui_create_order" /\ Ended(call[d])
                  /\ call[d].args = call[c].args) =>
                     call[d].result = call[c].result

\* Two calls with the same well-formed inputs, whose amount needed rounding
\* and whose payment id needed percent-encoding, have returned.
C7_Witness ==
    /\ call[1].op = "ui_create_order" /\ call[1].pc = "returned"
    /\ call[2].op = "ui_create_order" /\ call[2].pc = "returned"
    /\ call[1].args = call[2].args
    /\ call[1].args.amount = 1005
    /\ call[1].args.payment_id = <<":", "|", "%", "+">>

(***************************************************************************)
(* Signed API payloads.  A dict is the sequence of its items in insertion  *)
(* order; a value is an int or a str.                                      *)
(***************************************************************************)
IntV(n) == [t |-> "int", n |-> n]

StrV(x) == [t |-> "str", s |-> x]

\* str(v)
Stringify(v) == IF v.t = "int" THEN IntToStr(v.n) ELSE v.s

KeyShopId == <<"s", "h", "o", "p", "I", "d">>
KeyNonce == <<"n", "o", "n", "c", "e">>
KeyAmount == <<"a", "m", "o", "u", "n", "t">>
KeyPaymentId == <<"p", "a", "y", "m", "e", "n", "t", "I", "d">>
KeyIp == <<"i", "p">>
KeyEmail == <<"e", "m", "a", "i", "l">>
KeySignature == <<"s", "i", "g", "n", "a", "t", "u", "r", "e">>

\* payload.keys()
Keys(payload) == [k \in 1..Len(payload) |-> payload[k][1]]

\* payload[key]
Lookup(payload, key) ==
    payload[CHOOSE k \in 1..Len(payload) : payload[k][1] = key][2]

\* a < b for two str: by code point, a proper prefix first.
RECURSIVE StrLess(_, _)
StrLess(a, b) ==
    IF b = <<>> THEN FALSE
    ELSE IF a = <<>> THEN TRUE
    ELSE IF Ord(Head(a)) # Ord(Head(b)) THEN Ord(Head(a)) < Ord(Head(b))
    ELSE StrLess(Tail(a), Tail(b))

\* sorted(keys) for the keys of a dict (no key twice): the key at place k
\* is the one with k - 1 keys below it.
Sorted(keys) ==
    LET all == {keys[k] : k \in 1..Len(keys)} IN
    [k \in 1..Len(keys) |->
        CHOOSE x \in all : Cardinality({y \in all : StrLess(y, x)}) = k - 1]

\* The keys in insertion order: what leaving out sorted() would sign.
SigningKeysUnsorted(payload) == Keys(payload)

\* keys = sorted(payload.keys())
SigningKeys(payload) == Sorted(Keys(payload))

\* The keys joined instead of the values under them.
JoinKeys(payload, keys) == Join(<<"|">>, keys)

\* '|'.join(str(payload[k]) for k in keys)
JoinValues(payload, keys) ==
    Join(<<"|">>, [k \in 1..Len(keys) |-> Stringify(Lookup(payload, keys[k]))])

\* The message the two statements make of a payload.
SigningMessage(payload) == JoinValues(payload, SigningKeys(payload))

\* The api_create_order payload literal.
CreatePayload(self, a) ==
    << <<KeyShopId, IntV(self.merchant_id)>>,
       <<KeyNonce, IntV(a.nonce)>>,
       <<KeyAmount, StrV(Format2f(a.amount))>>,
       <<KeyCurrency, StrV(a.currency)>>,
       <<KeyPaymentId, StrV(a.payment_id)>>,
       <<KeyIp, StrV(a.user_ip)>>,
       <<KeyEmail, StrV(a.user_email)>>,
       <<KeyI, IntV(a.i)>> >>

\* The api_get_order payload literal.
GetPayload(self, a) ==
    << <<KeyShopId, IntV(self.merchant_id)>>,
       <<KeyNonce, IntV(self.nonce)>>,
       <<KeyPaymentId, StrV(a.payment_id)>> >>

PathCreate == <<"o", "r", "d", "e", "r", "s", "/", "c", "r", "e", "a", "t", "e">>

PathOrders == <<"o", "r", "d", "e", "r", "s">>

TimeoutSeconds == 10

NoTimeout == [t |-> "none"]

\* A post without the timeout argument: requests then waits without limit.
PostRequestNoTimeout(url, payload) ==
    [url |-> url, json |-> payload, timeout |-> NoTimeout]

\* The arguments of requests.post(url, json=payload, timeout=10).
PostRequest(url, payload) ==
    [url |-> url, json |-> payload, timeout |-> IntV(TimeoutSeconds)]

\* The check written as "if self._api_key is None": an empty key passes.
CheckApiKeyNoneOnly(c, next) ==
    /\ call' = [call EXCEPT ![c] =
                   IF client.api_key = None THEN End(@, Raises("RuntimeError"))
                   ELSE [@ EXCEPT !.pc = next]]
    /\ UNCHANGED <<ctor, client>>

\* if not self._api_key: raise RuntimeError('API key is not set')
CheckApiKey(c, next) ==
    /\ call' = [call EXCEPT ![c] =
                   IF Falsy(client.api_key) THEN End(@, Raises("RuntimeError"))
                   ELSE [@ EXCEPT !.pc = next]]
    /\ UNCHANGED <<ctor, client>>

\* keys = sorted(payload.keys())
SortKeys(c, next) ==
    /\ call' = [call EXCEPT ![c] =
                   [@ EXCEPT !.keys = SigningKeys(call[c].payload),
                             !.pc = next]]
    /\ UNCHANGED <<ctor, client>>

\* message = '|'.join(str(payload[k]) for k in keys)
JoinMessage(c, next) ==
    /\ call' = [call EXCEPT ![c] =
                   [@ EXCEPT !.message = JoinValues(call[c].payload, call[c].keys),
                             !.pc = next]]
    /\ UNCHANGED <<ctor, client>>

\* payload['signature'] = self.__hmac_sha256_hex(message, self._api_key)
SignPayload(c, next) ==
    /\ call' = [call EXCEPT ![c] =
                   IF ~Encodable(call[c].message \o client.api_key)
                     THEN End(@, Raises("UnicodeEncodeError"))
                   ELSE [@ EXCEPT
                           !.payload = Append(@, <<KeySignature,
                               StrV(hmac_sha256_hex(call[c].message,
                                                    client.api_key))>>),
                           !.pc = next]]
    /\ UNCHANGED <<ctor, client>>

\* requests.post(...) sends the request and waits for the outcome.
Post(c, path, next) ==
    /\ call' = [call EXCEPT ![c] =
                   [@ EXCEPT !.request = PostRequest(client.api_url \o path,
                                                     call[c].payload),
                             !.posts = @ + 1,
                             !.pc = next]]
    /\ UNCHANGED <<ctor, client>>

(***************************************************************************)
(* api_create_order                                                        *)
(***************************************************************************)
ApiCreateCheckKey(c) ==
    /\ call[c].pc = "api_create_order"
    /\ CheckApiKey(c, "create_payload")

\* The payload built while keeping the caller's nonce in self._nonce.
ApiCreateBuildPayloadStoringNonce(c) ==
    /\ call[c].pc = "create_payload"
    /\ call' = [call EXCEPT ![c] =
                   [@ EXCEPT !.payload = CreatePayload(client, call[c].args),
                             !.pc = "create_keys"]]
    /\ client' = [client EXCEPT !.nonce = call[c].args.nonce]
    /\ UNCHANGED ctor

ApiCreateBuildPayload(c) ==
    /\ call[c].pc = "create_payload"
    /\ call' = [call EXCEPT ![c] =
                   [@ EXCEPT !.payload = CreatePayload(client, call[c].args),
                             !.pc = "create_keys"]]
    /\ UNCHANGED <<ctor, client>>

ApiCreateSortKeys(c) ==
    /\ call[c].pc = "create_keys"
    /\ SortKeys(c, "create_message")

ApiCreateJoinMessage(c) ==
    /\ call[c].pc = "create_message"
    /\ JoinMessage(c, "create_sign")

ApiCreateSign(c) ==
    /\ call[c].pc = "create_sign"
    /\ SignPayload(c, "create_post")

ApiCreatePost(c) ==
    /\ call[c].pc = "create_post"
    /\ Post(c, PathCreate, "create_wait")

(***************************************************************************)
(* api_get_order                                                           *)
(***************************************************************************)
ApiGetCheckKey(c) ==
    /\ call[c].pc = "api_get_order"
    /\ CheckApiKey(c, "get_payload")

ApiGetBuildPayload(c) ==
    /\ call[c].pc = "get_payload"
    /\ call' = [call EXCEPT ![c] =
                   [@ EXCEPT !.payload = GetPayload(client, call[c].args),
                             !.pc = "get_keys"]]
    /\ UNCHANGED <<ctor, client>>

ApiGetSortKeys(c) ==
    /\ call[c].pc = "get_keys"
    /\ SortKeys(c, "get_message")

ApiGetJoinMessage(c) ==
    /\ call[c].pc = "get_message"
    /\ JoinMessage(c, "get_sign")

ApiGetSign(c) ==
    /\ call[c].pc = "get_sign"
    /\ SignPayload(c, "get_post")

ApiGetPost(c) ==
    /\ call[c].pc = "get_post"
    /\ Post(c, PathOrders, "get_wait")

(***************************************************************************)
(* The transport: how the wait inside requests.post ends.  The server's    *)
(* answer is a status code and a body text; the connection may fail; and a *)
(* request made with a timeout stops waiting when the timeout expires.     *)
(***************************************************************************)
Waiting(c) == call[c].pc \in {"create_wait", "get_wait"}

Respond(c, status, text) ==
    /\ Waiting(c)
    /\ call' = [call EXCEPT ![c] =
                   [@ EXCEPT !.response = [status_code |-> status, text |-> text],
                             !.pc = IF @ = "create_wait" THEN "create_json"
                                    ELSE "get_status"]]
    /\ UNCHANGED <<ctor, client>>

ConnectionFails(c) ==
    /\ Waiting(c)
    /\ call' = [call EXCEPT ![c] = End(@, Raises("ConnectionError"))]
    /\ UNCHANGED <<ctor, client>>

TimesOut(c) ==
    /\ Waiting(c)
    /\ call[c].request.timeout.t = "int"
    /\ call' = [call EXCEPT ![c] = End(@, Raises("Timeout"))]
    /\ UNCHANGED <<ctor, client>>

(***************************************************************************)
(* Response.json(): a reader of the JSON texts  digit, [], [value], {}.    *)
(***************************************************************************)
JsonFail == [ok |-> FALSE, value |-> NoResult, rest |-> <<>>]

JsonOk(v, rest) == [ok |-> TRUE, value |-> v, rest |-> rest]

RECURSIVE JsonValue(_)
JsonValue(text) ==
    IF text = <<>> THEN JsonFail
    ELSE IF IsDigit(text[1])
      THEN JsonOk([j |-> "number", n |-> Ord(text[1]) - 48], Tail(text))
    ELSE IF text[1] = "{" /\ Len(text) >= 2 /\ text[2] = "}"
      THEN JsonOk([j |-> "object", items |-> <<>>], SubSeq(text, 3, Len(text)))
    ELSE IF text[1] = "[" /\ Len(text) >= 2 /\ text[2] = "]"
      THEN JsonOk([j |-> "array", items |-> <<>>], SubSeq(text, 3, Len(text)))
    ELSE IF text[1] = "["
      THEN LET inner == JsonValue(Tail(text)) IN
           IF inner.ok /\ inner.rest # <<>> /\ inner.rest[1] = "]"
             THEN JsonOk([j |-> "array", items |-> <<inner.value>>],
                         Tail(inner.rest))
             ELSE JsonFail
    ELSE JsonFail

\* json.loads(text): the value, or a decoding error.
JsonLoads(text) ==
    LET r == JsonValue(text) IN IF r.ok /\ r.rest = <<>> THEN r ELSE JsonFail

Json(v) == [kind |-> "json", v |-> v]

\* return r.json()
ReturnJson(c) ==
    /\ LET r == JsonLoads(call[c].response.text) IN
       call' = [call EXCEPT ![c] =
                   End([@ EXCEPT !.parses = @ + 1],
                       IF r.ok THEN Returns(Json(r.value))
                       ELSE Raises("JSONDecodeError"))]
    /\ UNCHANGED <<ctor, client>>

\* Only the client errors taken for failures.
IsErrorStatusClientOnly(status) == 400 <= status /\ status < 500

\* Response.raise_for_status() raises for 400 <= status_code < 600.
IsErrorStatus(status) ==
    (400 <= status /\ status < 500) \/ (500 <= status /\ status < 600)

\* The create path with the status check of the get path before r.json().
ApiCreateJsonAfterStatusCheck(c) ==
    /\ call[c].pc = "create_json"
    /\ IF IsErrorStatus(call[c].response.status_code)
         THEN /\ call' = [call EXCEPT ![c] = End(@, Raises("HTTPError"))]
              /\ UNCHANGED <<ctor, client>>
         ELSE ReturnJson(c)

ApiCreateJson(c) ==
    /\ call[c].pc = "create_json"
    /\ ReturnJson(c)

\* r.raise_for_status()
ApiGetRaiseForStatus(c) ==
    /\ call[c].pc = "get_status"
    /\ call' = [call EXCEPT ![c] =
                   IF IsErrorStatus(call[c].response.status_code)
                     THEN End(@, Raises("HTTPError"))
                   ELSE [@ EXCEPT !.pc = "get_json"]]
    /\ UNCHANGED <<ctor, client>>

ApiGetJson(c) ==
    /\ call[c].pc = "get_json"
    /\ ReturnJson(c)

\* One step of the API method body caller c is in.
ApiStep(c) ==
    \/ ApiCreateCheckKey(c)
    \/ ApiCreateBuildPayload(c)
    \/ ApiCreateSortKeys(c)
    \/ ApiCreateJoinMessage(c)
    \/ ApiCreateSign(c)
    \/ ApiCreatePost(c)
    \/ ApiCreateJson(c)
    \/ ApiGetCheckKey(c)
    \/ ApiGetBuildPayload(c)
    \/ ApiGetSortKeys(c)
    \/ ApiGetJoinMessage(c)
    \/ ApiGetSign(c)
    \/ ApiGetPost(c)
    \/ ApiGetRaiseForStatus(c)
    \/ ApiGetJson(c)

\* One step of the method body caller c is in.
Step(c) == VerifyNotify(c) \/ UiCreateOrder(c) \/ ApiStep(c)

(***************************************************************************)
(* SignSpec: callers 1 and 2 build, sign and post api_create_order and     *)
(* api_get_order requests for drawn arguments.                             *)
(***************************************************************************)
SignCreateInputs ==
    [nonce : {5}, i : {4},
     user_email : {<<"m">>, <<"e", "|", "m">>, <<Surrogate>>},
     user_ip : {<<"1">>},
     payment_id : {<<"o">>},
     amount : {15, 1005},
     currency : {<<"R">>, <<"R", "|", "e">>}]

SignGetInputs == [payment_id : {<<"o">>, <<"o", "|">>, <<Surrogate>>}]

SignInit == InitWith({a \in CtorArgs : a.api_key = ApiKey /\ a.api_url = None})

SignNext ==
    \/ \E c \in {1, 2}, a \in SignCreateInputs : Call(c, "api_create_order", a)
    \/ \E c \in {1, 2}, a \in SignGetInputs : Call(c, "api_get_order", a)
    \/ \E c \in Callers :
          \/ ApiCreateCheckKey(c)
          \/ ApiCreateBuildPayload(c)
          \/ ApiCreateSortKeys(c)
          \/ ApiCreateJoinMessage(c)
          \/ ApiCreateSign(c)
          \/ ApiCreatePost(c)
          \/ ApiGetCheckKey(c)
          \/ ApiGetBuildPayload(c)
          \/ ApiGetSortKeys(c)
          \/ ApiGetJoinMessage(c)
          \/ ApiGetSign(c)
          \/ ApiGetPost(c)

SignSpec == SignInit /\ [][SignNext]_vars

\* The key order the signing message is claimed to follow.
CreateKeyOrder == <<KeyAmount, KeyCurrency, KeyEmail, KeyI, KeyIp, KeyNonce,
                    KeyPaymentId, KeyShopId>>

GetKeyOrder == <<KeyNonce, KeyPaymentId, KeyShopId>>

Range(f) == {f[k] : k \in DOMAIN f}

\* The '|'-joined stringified values of body under the keys of order.
JoinedValues(body, order) ==
    Join(<<"|">>, [k \in 1..Len(order) |-> Stringify(Lookup(body, order[k]))])

\* The request caller c has posted carries exactly the keys of order and
\* 'signature', each once; the message that was signed is the values under
\* order joined by '|'; and 'signature' is its HMAC under the API key.
PostedBodySigned(c, order) ==
    LET body == call[c].request.json IN
    /\ Len(body) = Len(order) + 1
    /\ Range(Keys(body)) = Range(order) \cup {KeySignature}
    /\ call[c].message = JoinedValues(body, order)
    /\ Lookup(body, KeySignature) =
           StrV(hmac_sha256_hex(JoinedValues(body, order), ctor.api_key))

\* C6: in both API calls the posted body is the signed fields plus
\* 'signature'; the signed message is the stringified field values joined by
\* '|' in the order amount, currency, email, i, ip, nonce, paymentId, shopId
\* (create) or nonce, paymentId, shopId (get); the signature is the HMAC of
\* that message under the API key; and the fields sent are the ones built
\* from the arguments (no field changed between signing and sending).
C6_SignedMessageSortedAndBodyIntact ==
    \A c \in Callers :
        /\ call[c].pc = "create_wait" =>
              /\ PostedBodySigned(c, CreateKeyOrder)
              /\ LET body == call[c].request.json
                     a == call[c].args
                 IN /\ Lookup(body, KeyShopId) = IntV(ctor.merchant_id)
                    /\ Lookup(body, KeyNonce) = IntV(a.nonce)
                    /\ Lookup(body, KeyCurrency) = StrV(a.currency)
                    /\ Lookup(body, KeyPaymentId) = StrV(a.payment_id)
                    /\ Lookup(body, KeyIp) = StrV(a.user_ip)
                    /\ Lookup(body, KeyEmail) = StrV(a.user_email)
                    /\ Lookup(body, KeyI) = IntV(a.i)
                    /\ Lookup(body, KeyAmount).t = "str"
                    /\ IsTwoDecimal(Lookup(body, KeyAmount).s)
                    /\ 10 * HundredthsOf(Lookup(body, KeyAmount).s) - a.amount
                          \in -5..5
        /\ call[c].pc = "get_wait" =>
              /\ PostedBodySigned(c, GetKeyOrder)
              /\ LET body == call[c].request.json IN
                 /\ Lookup(body, KeyShopId) = IntV(ctor.merchant_id)
                 /\ Lookup(body, KeyNonce) = IntV(ctor.nonce)
                 /\ Lookup(body, KeyPaymentId) = StrV(call[c].args.payment_id)

\* Both kinds of request have been posted, the create one with a value that
\* holds a '|'.
C6_Witness ==
    /\ call[1].pc = "create_wait"
    /\ call[1].args.currency = <<"R", "|", "e">>
    /\ call[2].pc = "get_wait"

\* Caller c's payload has been signed.
Signed(c) ==
    call[c].pc \in {"create_post", "create_wait", "get_post", "get_wait"}

\* The payload's items other than 'signature'.
SignedFields(c) == Range(call[c].payload) \ {p \in Range(call[c].payload) :
                                                p[1] = KeySignature}

HasBar(s) == \E k \in 1..Len(s) : s[k] = "|"

\* No str value of caller c's signed fields holds the separator '|'.
NoBarInValues(c) ==
    \A p \in SignedFields(c) : p[2].t = "str" => ~HasBar(p[2].s)

\* C10 (as claimed): two payloads of the same operation that differ in a
\* signed field have different signing messages.
C10_MessageUnambiguous ==
    \A c, d \in Callers :
        (/\ Signed(c) /\ Signed(d) /\ call[c].op = call[d].op
         /\ SignedFields(c) # SignedFields(d)) =>
            call[c].message # call[d].message

\* C10 (amended): two api_get_order payloads of one client that differ in a
\* signed field have different signing messages, and so have two
\* api_create_order payloads provided no str value of either holds '|'.
C10_MessageUnambiguousWithoutBar ==
    \A c, d \in Callers :
        (/\ Signed(c) /\ Signed(d) /\ call[c].op = call[d].op
         /\ SignedFields(c) # SignedFields(d)
         /\ (call[c].op = "api_create_order" =>
                NoBarInValues(c) /\ NoBarInValues(d))) =>
            /\ call[c].message # call[d].message
            /\ Lookup(call[c].payload, KeySignature)
                  # Lookup(call[d].payload, KeySignature)

\* Two signed create payloads without '|' and differing in a field, or two
\* signed get payloads differing in paymentId, one holding '|'.
C10_Witness ==
    \/ /\ call[1].pc = "create_wait" /\ call[2].pc = "create_wait"
       /\ NoBarInValues(1) /\ NoBarInValues(2)
       /\ call[1].args.amount # call[2].args.amount
    \/ /\ call[1].pc = "get_wait" /\ call[2].pc = "get_wait"
       /\ call[1].args.payment_id = <<"o", "|">>
       /\ call[2].args.payment_id = <<"o">>

(***************************************************************************)
(* Spec: every caller calls any of the four operations, the calls          *)
(* interleaving step by step.                                              *)
(***************************************************************************)
SpecNotifyInputs(self) ==
    {[amount |-> <<"1">>, order_id |-> <<"o">>,
      sign |-> md5hex(NotifyMessage(self, <<"1">>, <<"o">>))]}

SpecUiInputs ==
    {[amount |-> 1005, currency |-> <<"R", "U", "B">>,
      payment_id |-> <<"o", "1">>, payment_method_id |-> 4]}

SpecCreateInputs ==
    {[nonce |-> 5, i |-> 4, user_email |-> <<"m">>, user_ip |-> <<"1">>,
      payment_id |-> <<"o">>, amount |-> 1005, currency |-> <<"R">>]}

SpecGetInputs == {[payment_id |-> <<"o">>]}

SpecResponses == {<<200, <<"{", "}">> >>, <<500, <<"<">> >>}

Init == InitWith({a \in CtorArgs : a.nonce = 12})

\* Caller c calls one of the four operations.
SpecCall(c) ==
    /\ call[c].pc = "idle"
    /\ \/ \E a \in SpecNotifyInputs(client) : Call(c, "verify_notify", a)
       \/ \E a \in SpecUiInputs : Call(c, "ui_create_order", a)
       \/ \E a \in SpecCreateInputs : Call(c, "api_create_order", a)
       \/ \E a \in SpecGetInputs : Call(c, "api_get_order", a)

Next ==
    \E c \in Callers :
        \/ SpecCall(c)
        \/ Step(c)
        \/ \E r \in SpecResponses : Respond(c, r[1], r[2])
        \/ ConnectionFails(c)
        \/ TimesOut(c)
        \/ Return(c)

Spec == Init /\ [][Next]_vars

IsApiCall(f) == f.op \in {"api_create_order", "api_get_order"}

\* C1: on a client constructed without an API key, an api_create_order or
\* api_get_order call does nothing but fail: it is at its key check or has
\* raised there, with no payload built, nothing signed and no HTTP request
\* issued.
C1_NoApiKeyFailsBeforeAnyRequest ==
    (ctor.api_key = None \/ Len(ctor.api_key) = 0) =>
        \A c \in Callers :
            IsApiCall(call[c]) =>
                /\ call[c].posts = 0
                /\ call[c].request = <<>>
                /\ call[c].payload = <<>>
                /\ call[c].keys = <<>>
                /\ call[c].message = <<>>
                /\ call[c].pc \in {call[c].op, "raised"}
                /\ call[c].pc = "raised" => call[c].error = "RuntimeError"

\* Without an API key, an api_create_order call and an api_get_order call
\* have both ended in the error.
C1_Witness ==
    /\ ctor.api_key = <<>>
    /\ call[1].op = "api_create_order" /\ call[1].error = "RuntimeError"
    /\ call[2].op = "api_get_order" /\ call[2].error = "RuntimeError"

\* The configuration an object constructed from ctor holds.
ConfigAtConstruction ==
    [merchant_id |-> ctor.merchant_id, secret1 |-> ctor.secret_word_1,
     secret2 |-> ctor.secret_word_2, api_key |-> ctor.api_key,
     success_url |-> ctor.success_url, fail_url |-> ctor.fail_url,
     notify_url |-> ctor.notify_url,
     api_url |-> IF ctor.api_url \in {None, <<>>} THEN DefaultApiUrl
                 ELSE ctor.api_url,
     ui_url |-> IF ctor.ui_url \in {None, <<>>} THEN DefaultUiUrl
                ELSE ctor.ui_url,
     nonce |-> ctor.nonce]

\* The request a call of op with arguments a issues when it runs alone on
\* the client as constructed.
RequestAlone(op, a) ==
    LET self == ConfigAtConstruction
        fields == IF op = "api_create_order" THEN CreatePayload(self, a)
                  ELSE GetPayload(self, a)
        order == IF op = "api_create_order" THEN CreateKeyOrder
                 ELSE GetKeyOrder
        path == IF op = "api_create_order" THEN PathCreate ELSE PathOrders
    IN [url |-> self.api_url \o path,
        json |-> Append(fields, <<KeySignature,
                    StrV(hmac_sha256_hex(JoinedValues(fields, order),
                                         self.api_key))>>),
        timeout |-> IntV(10)]

\* How a call that has ended would have ended when run alone on the client
\* as constructed, given the response it received (if any).
OutcomeAlone(f) ==
    LET self == ConfigAtConstruction
        a == f.args
    IN CASE f.op = "verify_notify" ->
              verify_notify(self, a.amount, a.order_id, a.sign)
         [] f.op = "ui_create_order" ->
              ui_create_order(self, a.amount, a.currency, a.payment_id,
                              a.payment_method_id)
         [] IsApiCall(f) ->
              IF Falsy(self.api_key) THEN Raises("RuntimeError")
              ELSE IF f.response = <<>> THEN Raises(f.error)
              ELSE IF f.op = "api_get_order"
                      /\ IsErrorStatus(f.response.status_code)
                THEN Raises("HTTPError")
              ELSE IF JsonLoads(f.response.text).ok
                THEN Returns(Json(JsonLoads(f.response.text).value))
              ELSE Raises("JSONDecodeError")

\* C8: whatever the callers do and however their calls interleave, the
\* client's configuration fields stay as constructed; every request issued
\* is the one its call issues when run alone; every call that has ended has
\* ended as it does when run alone; and an api_get_order request carries the
\* nonce given at construction.
C8_ConfigurationNeverChanges ==
    /\ client = ConfigAtConstruction
    /\ \A c \in Callers :
          /\ call[c].posts > 0 =>
                /\ call[c].request = RequestAlone(call[c].op, call[c].args)
                /\ call[c].op = "api_get_order" =>
                      Lookup(call[c].request.json, KeyNonce) = IntV(ctor.nonce)
          /\ Ended(call[c]) =>
                [error |-> call[c].error, result |-> call[c].result]
                    = OutcomeAlone(call[c])

\* An api_get_order request is in flight while another caller's
\* api_create_order call, given another nonce, has ended.
C8_Witness ==
    /\ call[1].pc = "get_wait"
    /\ call[2].op = "api_create_order" /\ call[2].pc = "returned"
    /\ call[2].args.nonce # ctor.nonce

(***************************************************************************)
(* HttpSpec: callers 1 and 2 make API calls that receive any status and    *)
(* body.  HttpFairSpec adds that a method body keeps running and that a    *)
(* wait made with a timeout ends.                                          *)
(***************************************************************************)
HttpStatuses == {200, 399, 400, 599, 600}

HttpBodies == {<<"{", "}">>, <<"[", "7", "]">>, <<>>, <<"<">>}

HttpCreateInputs ==
    {[nonce |-> 5, i |-> 4, user_email |-> e, user_ip |-> <<"1">>,
      payment_id |-> <<"o">>, amount |-> 1005, currency |-> <<"R">>] :
        e \in {<<"m">>, <<Surrogate>>}}

HttpInit == InitWith({a \in CtorArgs : a.api_url = None /\ a.nonce = 1})

HttpNext ==
    \E c \in {1, 2} :
        \/ \E a \in HttpCreateInputs : Call(c, "api_create_order", a)
        \/ \E a \in SpecGetInputs : Call(c, "api_get_order", a)
        \/ ApiStep(c)
        \/ \E status \in HttpStatuses, text \in HttpBodies :
              Respond(c, status, text)
        \/ ConnectionFails(c)
        \/ TimesOut(c)
        \/ Return(c)

HttpSpec == HttpInit /\ [][HttpNext]_vars

HttpFairSpec ==
    /\ HttpSpec
    /\ \A c \in {1, 2} : WF_vars(ApiStep(c)) /\ WF_vars(TimesOut(c))

\* A 4xx or 5xx status.
FailureStatus(status) == status \div 100 \in {4, 5}

\* The value each body text of HttpBodies stands for, if it is JSON.
IsJsonText(text) == text \in {<<"{", "}">>, <<"[", "7", "]">>}

ValueOfJsonText(text) ==
    IF text = <<"{", "}">> THEN [j |-> "object", items |-> <<>>]
    ELSE [j |-> "array", items |-> <<[j |-> "number", n |-> 7]>>]

\* C2: an api_get_order call whose response has a 4xx or 5xx status never
\* parses the body and ends in an HTTP error; a call that parsed the body
\* had a response that passed the status check, and what it returns is the
\* parsed body.
C2_GetOrderFailsOnErrorStatus ==
    \A c \in Callers :
        (call[c].op = "api_get_order" /\ call[c].response # <<>>) =>
            /\ FailureStatus(call[c].response.status_code) =>
                  /\ call[c].parses = 0
                  /\ call[c].pc \in {"get_status", "raised"}
                  /\ call[c].pc = "raised" => call[c].error = "HTTPError"
            /\ (call[c].parses > 0 \/ call[c].pc \in {"get_json", "returned"}) =>
                  ~FailureStatus(call[c].response.status_code)
            /\ call[c].pc = "returned" =>
                  /\ call[c].parses = 1
                  /\ IsJsonText(call[c].response.text)
                  /\ call[c].result = Json(ValueOfJsonText(call[c].response.text))

\* An api_get_order call has ended in an HTTP error on a 599 response whose
\* body is JSON, unparsed.
C2_Witness ==
    \E c \in Callers :
        /\ call[c].op = "api_get_order" /\ call[c].error = "HTTPError"
        /\ call[c].response.status_code = 599
        /\ call[c].response.text = <<"{", "}">>
        /\ call[c].parses = 0

\* C3: an api_create_order call that received a response, of any status, is
\* about to parse the body or has parsed it; it has ended only by parsing:
\* with the parsed body as its result when the body is JSON, with a decoding
\* error otherwise, never with an error of the status.
C3_CreateOrderParsesWhateverStatus ==
    \A c \in Callers :
        (call[c].op = "api_create_order" /\ call[c].response # <<>>) =>
            \/ call[c].pc = "create_json" /\ call[c].parses = 0
            \/ /\ call[c].parses = 1
               /\ IF IsJsonText(call[c].response.text)
                    THEN /\ call[c].pc = "returned"
                         /\ call[c].result =
                               Json(ValueOfJsonText(call[c].response.text))
                    ELSE /\ call[c].pc = "raised"
                         /\ call[c].error = "JSONDecodeError"

\* An api_create_order call has returned the parsed body of a 599 response,
\* and another has returned that of a 400 response.
C3_Witness ==
    /\ call[1].op = "api_create_order" /\ call[1].pc = "returned"
    /\ call[1].response.status_code = 599
    /\ call[1].result = Json([j |-> "array", items |-> <<[j |-> "number", n |-> 7]>>])
    /\ call[2].op = "api_create_order" /\ call[2].pc = "returned"
    /\ call[2].response.status_code = 400

\* How an API call that issued its request may stand: waiting; or ended by
\* the connection failing or the timeout expiring, with no response; or
\* past a response, where an error is one of the status (get only) or of
\* decoding.
AfterPostConsistent(f) ==
    \/ f.pc \in {"create_wait", "get_wait"} /\ f.response = <<>>
    \/ f.pc = "raised" /\ f.response = <<>>
          /\ f.error \in {"ConnectionError", "Timeout"}
    \/ f.response # <<>> /\ f.pc \in {"create_json", "get_status", "get_json"}
    \/ f.response # <<>> /\ f.pc = "returned"
    \/ f.response # <<>> /\ f.pc = "raised" /\ f.error = "JSONDecodeError"
    \/ f.response # <<>> /\ f.pc = "raised" /\ f.error = "HTTPError"
          /\ f.op = "api_get_order"

\* C9: a call issues at most one HTTP request, made with the 10-second
\* timeout, and whatever way the request fails the call is over without a
\* second one; and every call that has begun eventually ends, with a result
\* or with an error.
C9_OneRequestAndCallEnds ==
    /\ [](\A c \in {1, 2} :
             /\ call[c].posts <= 1
             /\ call[c].posts = 1 =>
                   /\ call[c].request.timeout = IntV(10)
                   /\ AfterPostConsistent(call[c]))
    /\ \A c \in {1, 2} : (call[c].pc # "idle") ~> Ended(call[c])

\* A call has ended by the timeout after its one request.
C9_Witness ==
    \E c \in Callers :
        /\ call[c].pc = "raised" /\ call[c].error = "Timeout"
        /\ call[c].posts = 1
====
